---- MODULE Spec2Model ----
(***************************************************************************)
(* Cooperative coroutine scheduler of CylAlon/coroutine.                   *)
(*                                                                         *)
(* The scheduler core (CorInit, CorDestroy, CorCreate, CorDelete, the      *)
(* dispatcher, the timeout manager, Suspend, CorResume, CorBegin, CorEnd,  *)
(* Yield) is src/coroutine.c.  The body                                    *)
(* macros (COR_BEGIN, cor_yield, cor_sleep, cor_suspend, cor_mutex_lock,   *)
(* RESUMESTATE) are src/unnamed/part_000.  The functions the macros call   *)
(* whose definitions are not in src/ (three-argument yield, mutex_lock,    *)
(* mutex_unlock) follow spec.md sections 4.3.2 and 4.3.6.                  *)
(*                                                                         *)
(* switch_state of the macros is the labelFlag of coroutine.c:             *)
(* SW_NORMAL = 0 = FALSE (fresh entry), SW_ABORT = 1 = TRUE (re-entry).    *)
(***************************************************************************)
EXTENDS Integers, Sequences, FiniteSets, TLC

\* ---------------------------------------------------------------- bounds
\* labels of a body: StartLabel, then one label after each statement
MaxLabel == 2
\* number of times the 1 ms tick source advances in a run
MaxTicks == 1
\* number of callbacks CorStart invokes in a run
MaxDispatch == 5
\* ticks left before the 32-bit tick source wraps, when the application starts
TicksBeforeWrap == 1

\* ------------------------------------------------------ program constants
COR_MAX_CAP == 32
\* a uint32_t is the pair <<high half, low half>> of 16-bit halves
Half == 65536
NoIndex == -1
NoHandle == -1
NullPtr == -2
NullLabel == 0
StartLabel == 1
CorIdleHandle == 0
SleepAdjust == 100

\* the cap arguments the application passes to CorInit
CapArgs == {0, 1, 2, 3, 33}
\* the callbacks the application passes to CorCreate
FuncArgs == {"task", "NULL"}
\* the arguments bodies pass to cor_sleep
SleepArgs == {1, 2, 100}
\* the application's CorHandle_t variables, all -1 at first
HandleVars == {1, 2}

U32Zero == <<0, 0>>
U32Of(n) == <<n \div Half, n % Half>>
U32Inc(a) == IF a[2] + 1 < Half THEN <<a[1], a[2] + 1>> ELSE <<(a[1] + 1) % Half, 0>>
\* a - b in uint32_t arithmetic
U32Sub(a, b) ==
    LET lo == a[2] - b[2]
        borrow == IF lo < 0 THEN 1 ELSE 0
    IN <<(a[1] - b[1] - borrow) % Half, lo % Half>>
\* a >= b on uint32_t
U32Geq(a, b) == a[1] > b[1] \/ (a[1] = b[1] /\ a[2] >= b[2])

VARIABLES
    cap,      \* corSys.cap
    INDEX,    \* corSys.index
    cor,      \* corSys.coroutines: slot -> record
    tick,     \* static tick of corGetNextTaskId
    now,      \* value getTick() returns
    nticks,   \* how often the tick source has advanced
    hv,       \* the application's CorHandle_t variables
    mutex,    \* the mutex word, as the set of its set bits
    pc,       \* where the single thread of control is
    pos,      \* label the running body is executing at
    left,     \* per slot: "anchor" after leaving by yield or sleep, "suspend" after
              \* cor_suspend(NULL); "roundtrip" while running after a suspend and resume
    want,     \* per slot: label of the statement after the call it left by
    snap,     \* per slot: anchor and flag when another task suspended it
    cs,       \* slots past a cor_mutex_lock and not yet at the unlock
    ndisp,    \* callbacks CorStart has invoked so far
    ret,      \* the call main made last, see Called
    pass      \* the sleepers the last timeout pass examined, see Examined

vars == <<cap, INDEX, cor, tick, now, nticks, hv, mutex, pc, pos, left, want, snap, cs, ndisp,
          ret, pass>>

\* memset(corSys.coroutines, 0, ...)
ZeroCor == [func |-> "NULL", label |-> NullLabel, labelFlag |-> FALSE,
            timeout |-> 0, lastTick |-> U32Zero, state |-> "NONE"]

\* ------------------------------------------------------- state macros
CHANGE_STATE(c, h, status) == [c EXCEPT ![h].state = status]
toReady(c, h) == CHANGE_STATE(c, h, "READY")
toRunning(c, h) == CHANGE_STATE(c, h, "RUNNING")
toBlocked(c, h) == CHANGE_STATE(c, h, "BLOCKED")
toWaiting(c, h) == CHANGE_STATE(c, h, "WAITING")
toSupend(c, h) == CHANGE_STATE(c, h, "SUSPEND")
isCreated(c, h) == c[h].state = "CREATED"
isReady(c, h) == c[h].state = "READY"
isRunning(c, h) == c[h].state = "RUNNING"
isWaiting(c, h) == c[h].state = "WAITING"
isTerminated(c, h) == c[h].state = "TERMINATED"
isNone(c, h) == c[h].state = "NONE"

\* ------------------------------------------------------- table lifecycle
\* CorInit's argument check
CorInitOk(c) == ~(c <= 1 \/ c > COR_MAX_CAP)

\* the table CorInit builds: zeroed, idle coroutine READY at slot 0
CorInitTable(c) ==
    [i \in 0 .. (c - 1) |->
        IF i = 0 THEN [ZeroCor EXCEPT !.func = "CorIdleFunc", !.state = "READY"]
        ELSE ZeroCor]

CorDestroyTableMutKeep(c) == c

\* CorDestroy: free(corSys.coroutines); corSys.coroutines = NULL
CorDestroyTable(c) == [i \in {} |-> ZeroCor]

\* CorCreate's scan: first NONE slot from 1, NoIndex when there is none
CorCreateSlot(c, cp) ==
    IF \E i \in 1 .. (cp - 1) : isNone(c, i)
    THEN CHOOSE i \in 1 .. (cp - 1) :
            isNone(c, i) /\ \A j \in 1 .. (i - 1) : ~isNone(c, j)
    ELSE NoIndex

CorCreateRejectsMutFunc(h, f) == h # NoHandle

\* CorCreate's argument check: h is *handle, f the callback
CorCreateRejects(h, f) == h # NoHandle \/ f = "NULL"

CorDeleteRejectsMutIdle(c, h) ==
    h = NoHandle \/ ~(h = CorIdleHandle) \/ h \notin DOMAIN c \/ isNone(c, h)

CorDeleteRejectsMut(c, h) == h = NoHandle \/ h \notin DOMAIN c \/ isNone(c, h)

\* CorDelete's check: isNotNull(handle) || !isIdle(*handle) || isNone(*handle)
CorDeleteRejects(c, h) == h # NoHandle \/ ~(h = CorIdleHandle) \/ isNone(c, h)

\* ------------------------------------------------------- accessors
corSetLabelFlag(c, idx, flag) == [c EXCEPT ![idx].labelFlag = flag]
corSetLabel(c, idx, label) == [c EXCEPT ![idx].label = label]

\* CorSetTimeout: always acts on slot INDEX (idx) and stamps getTick() (tk)
CorSetTimeout(c, idx, timeout, tk) ==
    [c EXCEPT ![idx].timeout = timeout, ![idx].lastTick = tk]

\* ------------------------------------------------------- suspension protocol
CorBeginMutRestart(c, idx, label) ==
    corSetLabelFlag(corSetLabel(c, idx, label), idx, TRUE)

\* CorBegin: the table after the call; its return value is CorBeginLabel
CorBegin(c, idx, label) ==
    IF ~c[idx].labelFlag
    THEN corSetLabelFlag(corSetLabel(c, idx, label), idx, TRUE)
    ELSE c

CorBeginLabel(c, idx, label) == CorBegin(c, idx, label)[idx].label

CorEnd(c, idx, label) == corSetLabelFlag(corSetLabel(c, idx, label), idx, FALSE)

\* Yield(label) of coroutine.c
Yield(c, idx, label, tk) ==
    IF isNone(c, idx) THEN c
    ELSE corSetLabel(CorSetTimeout(toWaiting(c, idx), idx, 0, tk), idx, label)

\* yield(label, state, timeout) the macros of part_000 call: Yield with the
\* state and timeout given, and switch_state := ABORT (spec.md 4.3.2)
yield(c, idx, label, state, timeout, tk) ==
    IF isNone(c, idx) THEN c
    ELSE LET y == Yield(c, idx, label, tk) IN
         [y EXCEPT ![idx].state = state, ![idx].timeout = timeout,
                   ![idx].labelFlag = TRUE]

SleepTimeoutMutExact(ms) == ms

\* cor_sleep's third argument
SleepTimeout(ms) == IF ms < SleepAdjust THEN ms ELSE ms - 1

SuspendMutNoCheck(c, idx, h) ==
    IF h = NullPtr THEN toSupend(c, idx)
    ELSE IF h = NoHandle THEN c ELSE toSupend(c, h)

\* Suspend(handle): h is *handle, or NullPtr for a null pointer
Suspend(c, idx, h) ==
    IF h = NullPtr THEN toSupend(c, idx)
    ELSE IF h = NoHandle \/ isNone(c, h) \/ isTerminated(c, h) \/ isCreated(c, h)
         THEN c
         ELSE toSupend(c, h)

CorResumeMutFlag(c, idx, h, tk) ==
    IF h = NoHandle \/ isNone(c, h) \/ isTerminated(c, h) THEN c
    ELSE corSetLabelFlag(CorSetTimeout(toReady(c, h), idx, 0, tk), h, FALSE)

\* CorResume(handle): the target becomes READY, CorSetTimeout(0) acts on INDEX
CorResume(c, idx, h, tk) ==
    IF h = NoHandle \/ isNone(c, h) \/ isTerminated(c, h) THEN c
    ELSE CorSetTimeout(toReady(c, h), idx, 0, tk)

\* ------------------------------------------------------- mutex (spec.md 4.3.6)
\* mutex_lock: the word after the call
mutex_lock_word(m, idx) == IF m = {} THEN {idx} ELSE m

\* mutex_lock: the table after the call
mutex_lock_cor(c, m, idx) ==
    IF m = {} THEN c ELSE corSetLabelFlag(toBlocked(c, idx), idx, TRUE)

mutex_unlock(m, idx) == m \ {idx}

cor_mutex_lock_returnsMut(m) == FALSE

\* cor_mutex_lock: if (*handle != 0) return;
cor_mutex_lock_returns(m) == m # {}

\* ------------------------------------------------------- timeout manager
ElapsedMutSwap(tk, last) == U32Sub(last, tk)

ElapsedMutNoWrap(tk, last) == IF U32Geq(tk, last) THEN U32Sub(tk, last) ELSE U32Zero

\* tick - COR_LAST_TICK(i)
Elapsed(tk, last) == U32Sub(tk, last)

corTimeoutDispSlot(r, tk) ==
    IF r.state # "WAITING" THEN r
    ELSE IF r.timeout > 0
         THEN IF U32Geq(Elapsed(tk, r.lastTick), U32Of(r.timeout))
              THEN [r EXCEPT !.lastTick = tk, !.timeout = 0, !.state = "READY"]
              ELSE r
         ELSE [r EXCEPT !.state = "READY"]

corTimeoutDisp(c, tk) == [i \in DOMAIN c |-> corTimeoutDispSlot(c[i], tk)]

\* ------------------------------------------------------- dispatcher
switchNext(idx, cp) == IF idx + 1 >= cp THEN 0 ELSE idx + 1

\* the while loop of corGetNextTaskId: the first READY slot met from idx,
\* NoIndex when a full turn meets none (the loop then never ends)
RECURSIVE scanReady(_, _, _, _)
scanReady(c, cp, idx, fuel) ==
    IF isReady(c, idx) THEN idx
    ELSE IF fuel = 0 THEN NoIndex
    ELSE scanReady(c, cp, switchNext(idx, cp), fuel - 1)

FastPathMutAnyState(c, idx, mTick, tk) == idx # -1 /\ mTick # tk

\* the fast path of corGetNextTaskId
FastPath(c, idx, mTick, tk) == idx # -1 /\ isReady(c, idx) /\ mTick # tk

CorStartAfterMutKeep(c, idx) == c

CorStartAfterMutEnd(c, idx) ==
    IF isRunning(c, idx) THEN CHANGE_STATE(c, idx, "TERMINATED") ELSE c

\* CorStart, after the callback returns
CorStartAfter(c, idx) == IF isRunning(c, idx) THEN toReady(c, idx) ELSE c

\* ------------------------------------------------------- initial state
\* a call of main: the function, its integer argument (cap, or *handle before
\* the call; for CorDestroy, which has none, CAP before the call), its
\* callback argument, and "true", "false" or "void" returned
Called(call, arg, func, val) == [call |-> call, arg |-> arg, func |-> func, val |-> val]

NoSnap == [set |-> FALSE, label |-> NullLabel, labelFlag |-> FALSE, resumed |-> FALSE]

Init ==
    /\ cap = 0
    /\ INDEX = 0
    /\ cor = [i \in {} |-> ZeroCor]
    /\ tick = U32Zero
    /\ now = U32Sub(U32Zero, U32Of(TicksBeforeWrap))
    /\ nticks = 0
    /\ hv = [k \in HandleVars |-> NoHandle]
    /\ mutex = {}
    /\ pc = "main"
    /\ pos = NullLabel
    /\ left = [i \in {} |-> ""]
    /\ want = [i \in {} |-> NullLabel]
    /\ snap = [i \in {} |-> NoSnap]
    /\ cs = {}
    /\ ndisp = 0
    /\ ret = Called("", 0, "", "void")
    /\ pass = {}

\* ------------------------------------------------------- application
\* CorInit(c, getTick) from main, whether or not a table exists already
AppInitOf(c) ==
    /\ pc = "main"
    /\ IF CorInitOk(c)
       THEN /\ cap' = c
            /\ INDEX' = -1
            /\ cor' = CorInitTable(c)
            /\ left' = [i \in 0 .. (c - 1) |-> ""]
            /\ want' = [i \in 0 .. (c - 1) |-> NullLabel]
            /\ snap' = [i \in 0 .. (c - 1) |-> NoSnap]
            /\ ret' = Called("CorInit", c, "", "true")
       ELSE /\ UNCHANGED <<cap, INDEX, cor, left, want, snap>>
            /\ ret' = Called("CorInit", c, "", "false")
    /\ UNCHANGED <<tick, now, nticks, hv, mutex, pc, pos, cs, ndisp, pass>>

AppInit == \E c \in CapArgs : AppInitOf(c)

\* CorDestroy() from main
AppDestroy ==
    /\ pc = "main"
    /\ cap' = 0
    /\ INDEX' = -1
    /\ cor' = CorDestroyTable(cor)
    /\ left' = [i \in {} |-> ""]
    /\ want' = [i \in {} |-> NullLabel]
    /\ snap' = [i \in {} |-> NoSnap]
    /\ ret' = Called("CorDestroy", cap, "", "void")
    /\ UNCHANGED <<tick, now, nticks, hv, mutex, pc, pos, cs, ndisp, pass>>

\* CorCreate(&hv[k], f, arg) from main; main uses its handle variables in order
AppCreateOf(k, f) ==
    /\ pc = "main"
    /\ \A j \in HandleVars : j < k => hv[j] # NoHandle
    /\ LET i == CorCreateSlot(cor, cap) IN
       IF ~CorCreateRejects(hv[k], f) /\ i # NoIndex
       THEN /\ cor' = toReady([cor EXCEPT ![i].func = f], i)
            /\ hv' = [hv EXCEPT ![k] = i]
            /\ ret' = Called("CorCreate", hv[k], f, "true")
       ELSE /\ UNCHANGED <<cor, hv>>
            /\ ret' = Called("CorCreate", hv[k], f, "false")
    /\ UNCHANGED <<cap, INDEX, tick, now, nticks, mutex, pc, pos, left, want, snap, cs, ndisp, pass>>

AppCreate == \E k \in HandleVars : \E f \in FuncArgs : AppCreateOf(k, f)

\* the handle variables main can pass to CorDelete: its own, and 0 for the
\* library's CorIdleHandle
DeleteArgs == HandleVars \cup {0}

\* *handle of the handle variable k
HandleOf(k) == IF k = 0 THEN CorIdleHandle ELSE hv[k]

\* Suspend(&hv[k]) from main, before CorStart; *handle must be -1 or index
\* the table, since isNone(*handle) reads mCor[*handle]
AppSuspendOf(k) ==
    /\ pc = "main"
    /\ hv[k] = NoHandle \/ hv[k] \in DOMAIN cor
    /\ cor' = Suspend(cor, INDEX, hv[k])
    /\ ret' = Called("Suspend", hv[k], "", "void")
    /\ UNCHANGED <<cap, INDEX, tick, now, nticks, hv, mutex, pc, pos, left, want, snap, cs, ndisp, pass>>

AppSuspend == \E k \in HandleVars : AppSuspendOf(k)

\* CorResume(&hv[k]) from main, before CorStart, on a handle whose slot is
\* not in use; on a slot in use CorSetTimeout(0) would write mCor[INDEX]
\* with INDEX = -1, outside the table
AppResumeOf(k) ==
    /\ pc = "main"
    /\ \/ hv[k] = NoHandle
       \/ hv[k] \in DOMAIN cor /\ (isNone(cor, hv[k]) \/ isTerminated(cor, hv[k]))
    /\ cor' = CorResume(cor, INDEX, hv[k], now)
    /\ ret' = Called("CorResume", hv[k], "", "void")
    /\ UNCHANGED <<cap, INDEX, tick, now, nticks, hv, mutex, pc, pos, left, want, snap, cs, ndisp, pass>>

AppResume == \E k \in HandleVars : AppResumeOf(k)

\* CorDelete(&hv[k]), or CorDelete(&CorIdleHandle), from main
AppDelete ==
    /\ pc = "main"
    /\ \E k \in DeleteArgs :
        IF CorDeleteRejects(cor, HandleOf(k))
        THEN /\ UNCHANGED <<cor, hv>>
             /\ ret' = Called("CorDelete", HandleOf(k), "", "false")
        ELSE /\ cor' = [cor EXCEPT ![HandleOf(k)] = ZeroCor]
             /\ hv' = IF k = 0 THEN hv ELSE [hv EXCEPT ![k] = NoHandle]
             /\ ret' = Called("CorDelete", HandleOf(k), "", "true")
    /\ UNCHANGED <<cap, INDEX, tick, now, nticks, mutex, pc, pos, left, want, snap, cs, ndisp, pass>>

\* main calls CorStart
AppStart ==
    /\ pc = "main"
    /\ cap > 0
    /\ pc' = "select"
    /\ ret' = Called("CorStart", 0, "", "void")
    /\ UNCHANGED <<cap, INDEX, cor, tick, now, nticks, hv, mutex, pos, left, want, snap, cs, ndisp, pass>>

\* the host's 1 ms tick
Tick ==
    /\ pc # "main"
    /\ nticks < MaxTicks
    /\ now' = U32Inc(now)
    /\ nticks' = nticks + 1
    /\ UNCHANGED <<cap, INDEX, cor, tick, hv, mutex, pc, pos, left, want, snap, cs, ndisp, ret, pass>>

\* ------------------------------------------------------- dispatcher actions
\* the slot corGetNextTaskId returns from the current state, NoIndex when
\* its while loop meets no READY slot
Selected ==
    IF FastPath(cor, INDEX, now, tick) THEN INDEX
    ELSE scanReady(corTimeoutDisp(cor, now), cap, switchNext(INDEX, cap), cap)

\* the slots a timeout pass at tick tk found WAITING with timeout > 0 in table
\* c: the tick each had been waiting since, its timeout, and whether the pass,
\* which left table c1, made it READY
Examined(c, c1, tk) ==
    {[slot |-> i, since |-> c[i].lastTick, timeout |-> c[i].timeout, at |-> tk,
      woke |-> c1[i].state = "READY"] :
        i \in {j \in DOMAIN c : c[j].state = "WAITING" /\ c[j].timeout > 0}}

\* corGetNextTaskId, called at the top of CorStart's loop
Select ==
    /\ pc = "select"
    /\ ndisp < MaxDispatch \/ Selected = NoIndex
    /\ LET mTick == now IN
       IF FastPath(cor, INDEX, mTick, tick)
       THEN /\ tick' = mTick
            /\ cor' = toRunning(cor, INDEX)
            /\ pc' = "call"
            /\ ndisp' = ndisp + 1
            /\ UNCHANGED <<INDEX, pass>>
       ELSE LET c1 == corTimeoutDisp(cor, now)
                first == switchNext(INDEX, cap)
                r == scanReady(c1, cap, first, cap)
            IN /\ pass' = Examined(cor, c1, now)
               /\ IF r # NoIndex
                  THEN /\ tick' = mTick
                       /\ cor' = toRunning(c1, r)
                       /\ INDEX' = r
                       /\ pc' = "call"
                       /\ ndisp' = ndisp + 1
                  ELSE /\ cor' = c1
                       /\ INDEX' = switchNext(first, cap)
                       /\ pc' = "spin"
                       /\ UNCHANGED <<tick, ndisp>>
    /\ UNCHANGED <<cap, now, nticks, hv, mutex, pos, left, want, snap, cs, ret>>

\* one more turn of while (!isReady(index)) index = switchNext();
Spin ==
    /\ pc = "spin"
    /\ IF isReady(cor, INDEX)
       THEN /\ cor' = toRunning(cor, INDEX)
            /\ tick' = now
            /\ pc' = "call"
            /\ UNCHANGED INDEX
       ELSE /\ INDEX' = switchNext(INDEX, cap)
            /\ UNCHANGED <<cor, tick, pc, ndisp>>
    /\ UNCHANGED <<cap, now, nticks, hv, mutex, pos, left, want, snap, cs, ndisp, ret, pass>>

\* the body has returned to CorStart: ghost bookkeeping shared by every return
Returned(c, how, next) ==
    /\ cor' = CorStartAfter(c, INDEX)
    /\ pc' = "select"
    /\ pos' = NullLabel
    /\ left' = [left EXCEPT ![INDEX] = how]
    /\ want' = [want EXCEPT ![INDEX] = next]

\* CorStart calls the idle callback: CorIdleFunc runs Begin, Suspend(NULL), End
IdleBody ==
    /\ pc = "call"
    /\ cor[INDEX].func = "CorIdleFunc"
    /\ LET c1 == CorBegin(cor, INDEX, StartLabel)
           c2 == Suspend(c1, INDEX, NullPtr)
           c3 == CorEnd(c2, INDEX, StartLabel)
       IN Returned(c3, "", NullLabel)
    /\ pass' = {}
    /\ UNCHANGED <<cap, INDEX, tick, now, nticks, hv, mutex, snap, cs, ndisp, ret>>

\* CorStart calls a task callback: COR_BEGIN, and RESUMESTATE at a resume label
Begin ==
    /\ pc = "call"
    /\ cor[INDEX].func = "task"
    /\ LET c1 == CorBegin(cor, INDEX, StartLabel)
           L == CorBeginLabel(cor, INDEX, StartLabel)
       IN /\ pos' = L
          /\ cor' = IF L # StartLabel THEN corSetLabelFlag(c1, INDEX, FALSE) ELSE c1
    /\ pc' = "body"
    /\ left' = [left EXCEPT ![INDEX] =
                    IF snap[INDEX].set /\ snap[INDEX].resumed THEN "roundtrip" ELSE ""]
    /\ want' = [want EXCEPT ![INDEX] = NullLabel]
    /\ snap' = [snap EXCEPT ![INDEX] = NoSnap]
    /\ pass' = {}
    /\ UNCHANGED <<cap, INDEX, tick, now, nticks, hv, mutex, cs, ndisp, ret>>

\* ------------------------------------------------------- body statements
\* the values a body can pass as *handle
HandleValues == {hv[k] : k \in HandleVars} \cup {0}

InBody == pc = "body" /\ pos < MaxLabel

cor_yield ==
    /\ InBody
    /\ Returned(yield(cor, INDEX, pos + 1, "READY", 0, now), "anchor", pos + 1)
    /\ UNCHANGED <<cap, INDEX, tick, now, nticks, hv, mutex, snap, cs, ndisp, ret, pass>>

\* cor_sleep(ms)
cor_sleepOf(ms) ==
    /\ InBody
    /\ Returned(yield(cor, INDEX, pos + 1, "WAITING", SleepTimeout(ms), now),
                "anchor", pos + 1)
    /\ UNCHANGED <<cap, INDEX, tick, now, nticks, hv, mutex, snap, cs, ndisp, ret, pass>>

cor_sleep == \E ms \in SleepArgs : cor_sleepOf(ms)

\* cor_suspend(NULL)
cor_suspend_self ==
    /\ InBody
    /\ Returned(Suspend(cor, INDEX, NullPtr), "suspend", pos + 1)
    /\ UNCHANGED <<cap, INDEX, tick, now, nticks, hv, mutex, snap, cs, ndisp, ret, pass>>

\* cor_suspend(&h), h being *handle
cor_suspendOf(h) ==
    /\ InBody
    /\ cor' = Suspend(cor, INDEX, h)
    /\ snap' = IF h # NoHandle /\ h # INDEX /\ cor'[h] # cor[h]
               THEN [snap EXCEPT ![h] = [set |-> TRUE, label |-> cor[h].label,
                                         labelFlag |-> cor[h].labelFlag,
                                         resumed |-> FALSE]]
               ELSE snap
    /\ pos' = pos + 1
    /\ UNCHANGED <<cap, INDEX, tick, now, nticks, hv, mutex, pc, left, want, cs, ndisp, ret, pass>>

cor_suspend == \E h \in HandleValues : cor_suspendOf(h)

\* cor_resume(&h), h being *handle
cor_resumeOf(h) ==
    /\ InBody
    /\ cor' = CorResume(cor, INDEX, h, now)
    /\ snap' = IF h # NoHandle /\ snap[h].set /\ cor[h].state = "SUSPEND"
               THEN [snap EXCEPT ![h].resumed = TRUE]
               ELSE snap
    /\ pos' = pos + 1
    /\ UNCHANGED <<cap, INDEX, tick, now, nticks, hv, mutex, pc, left, want, cs, ndisp, ret, pass>>

cor_resume == \E h \in HandleValues : cor_resumeOf(h)

\* cor_mutex_lock(&mutex)
cor_mutex_lock ==
    /\ InBody
    /\ LET w == mutex_lock_word(mutex, INDEX)
           c1 == mutex_lock_cor(cor, mutex, INDEX)
       IN /\ mutex' = w
          /\ IF cor_mutex_lock_returns(w)
             THEN /\ Returned(c1, "", NullLabel)
                  /\ UNCHANGED cs
             ELSE /\ cor' = c1
                  /\ pos' = pos + 1
                  /\ cs' = cs \cup {INDEX}
                  /\ UNCHANGED <<pc, left, want, ndisp>>
    /\ UNCHANGED <<cap, INDEX, tick, now, nticks, hv, snap, ndisp, ret, pass>>

\* cor_mutex_unlock(&mutex)
cor_mutex_unlock ==
    /\ InBody
    /\ mutex' = mutex_unlock(mutex, INDEX)
    /\ cs' = cs \ {INDEX}
    /\ pos' = pos + 1
    /\ UNCHANGED <<cap, INDEX, cor, tick, now, nticks, hv, pc, left, want, snap, ndisp, ret, pass>>

\* the body returns without a suspension call (falls off its end)
BodyReturn ==
    /\ pc = "body"
    /\ Returned(cor, "", NullLabel)
    /\ UNCHANGED <<cap, INDEX, tick, now, nticks, hv, mutex, snap, cs, ndisp, ret, pass>>

Next ==
    \/ AppInit
    \/ AppCreate
    \/ AppDelete
    \/ AppDestroy
    \/ AppSuspend
    \/ AppResume
    \/ AppStart
    \/ Tick
    \/ Select
    \/ Spin
    \/ IdleBody
    \/ Begin
    \/ cor_yield
    \/ cor_sleep
    \/ cor_suspend_self
    \/ cor_suspend
    \/ cor_resume
    \/ cor_mutex_lock
    \/ cor_mutex_unlock
    \/ BodyReturn

Spec == Init /\ [][Next]_vars

\* the statements a running body can execute
Body ==
    \/ cor_yield
    \/ cor_sleep
    \/ cor_suspend_self
    \/ cor_suspend
    \/ cor_resume
    \/ cor_mutex_lock
    \/ cor_mutex_unlock
    \/ BodyReturn

\* the single thread of control keeps running: CorStart's loop never pauses,
\* a called body runs to its return
LiveSpec ==
    /\ Spec
    /\ WF_vars(Select)
    /\ WF_vars(Spin)
    /\ WF_vars(IdleBody \/ Begin)
    /\ WF_vars(Body)

\* the run is cut by MaxDispatch: CorStart would invoke one more callback
Cut == pc = "select" /\ ndisp >= MaxDispatch /\ Selected # NoIndex

UserSlots == 1 .. (cap - 1)
\* the user slots of the largest table the application asks for
TaskSlots == {1, 2}

\* ------------------------------------------------------- C1
\* C1: at most one slot is RUNNING, it is the slot whose callback CorStart is
\* executing, and between two callbacks no slot is RUNNING.
SingleRunner ==
    /\ Cardinality({i \in DOMAIN cor : cor[i].state = "RUNNING"}) <= 1
    /\ \A i \in DOMAIN cor :
          cor[i].state = "RUNNING" => i = INDEX /\ pc \in {"call", "body"}

\* between two callbacks, after bodies have left by yield or sleep and one
\* task has been suspended
SingleRunnerWitness ==
    /\ pc = "select"
    /\ ndisp >= 3
    /\ \E i \in UserSlots : left[i] = "anchor"
    /\ \E j \in UserSlots : cor[j].state = "SUSPEND"

\* ------------------------------------------------------- C2
AllUsersReady == cap >= 3 /\ \A i \in UserSlots : cor[i].state = "READY"

NextUser(idx) == IF idx + 1 >= cap THEN 1 ELSE idx + 1

\* C2: with every user task READY at the selection, the dispatch selects the
\* cyclic successor of the previously dispatched user slot and never slot 0
\* (so K consecutive dispatches select each of the K tasks once, in order).
RoundRobin ==
    [][(pc = "select" /\ pc' = "call" /\ AllUsersReady)
        => (INDEX' # 0 /\ (INDEX >= 1 => INDEX' = NextUser(INDEX)))]_vars

\* ------------------------------------------------------- C3
NoUserReady(c) == \A i \in UserSlots : c[i].state # "READY"

\* C3: a selection made when no user slot is READY (after the timeout pass)
\* completes and schedules slot 0.
IdleFallback ==
    [][(pc = "select" /\ pc' # "select" /\ NoUserReady(corTimeoutDisp(cor, now)))
        => (pc' = "call" /\ INDEX' = 0)]_vars

\* ------------------------------------------------------- C4
\* slot i sleeps and the tick source has advanced by its stored timeout
SleepExpired(i) ==
    /\ i \in DOMAIN cor
    /\ cor[i].state = "WAITING"
    /\ cor[i].timeout > 0
    /\ U32Geq(Elapsed(now, cor[i].lastTick), U32Of(cor[i].timeout))

\* slot i's callback has been invoked
Invoked(i) == pc = "body" /\ INDEX = i

\* C4: a task sleeping with timeout > 0 whose timeout has elapsed is invoked
\* again, unless somebody suspends it (or the run is cut by MaxDispatch).
SleepWakeup ==
    \A i \in TaskSlots :
        SleepExpired(i) ~>
            (Invoked(i) \/ Cut \/ (i \in DOMAIN cor /\ cor[i].state = "SUSPEND"))

LockFreeProceeds ==
    [][/\ (pc = "body" /\ mutex = {} /\ mutex' # {})
            => /\ mutex' = {INDEX}
               /\ pc' = "body"
               /\ pos' = pos + 1
               /\ cor'[INDEX].state = "RUNNING"
       /\ \A i \in mutex' : cor'[i].state # "BLOCKED"]_vars

\* ------------------------------------------------------- C7
\* C7: a coroutine BLOCKED by a contended lock, once the mutex has been
\* unlocked, is dispatched again with no resume call (its state stays
\* BLOCKED until CorStart invokes it), unless the run is cut by MaxDispatch.
BlockedWakeup ==
    \A i \in TaskSlots :
        (i \in DOMAIN cor /\ cor[i].state = "BLOCKED" /\ mutex = {}) ~>
            (Invoked(i) \/ Cut \/ (i \in DOMAIN cor /\ cor[i].state \in {"READY", "SUSPEND"}))

\* ------------------------------------------------------- C8
\* C8: a coroutine that left its body by yield or sleep, recording the label
\* after that call, is entered at that label on its next dispatch.
AnchorResume ==
    [][(pc = "call" /\ pc' = "body" /\ left[INDEX] = "anchor")
        => pos' = want[INDEX]]_vars

\* a body has just been re-entered at the label a yield or sleep recorded
AnchorResumeWitness ==
    /\ pc = "body"
    /\ pos # StartLabel
    /\ pos = cor[INDEX].label
    /\ ~cor[INDEX].labelFlag

\* ------------------------------------------------------- C9
\* the label CorBegin returns for a slot whose anchor is l and flag is f
EntryLabel(l, f) == IF f THEN l ELSE StartLabel

\* C9: once a task suspended by another task has been resumed, its anchor
\* and flag are those it had before the suspend; the resume leaves it READY;
\* and its next dispatch enters the body where that anchor and flag say
\* (the anchor on a re-entry, the start label on a fresh entry).
SuspendResumeRoundTrip ==
    [][/\ \A h \in DOMAIN cor' :
            (h \in DOMAIN snap' /\ snap'[h].set /\ snap'[h].resumed)
                => /\ cor'[h].label = snap'[h].label
                   /\ cor'[h].labelFlag = snap'[h].labelFlag
                   /\ (~snap[h].resumed => cor'[h].state = "READY")
       /\ (pc = "call" /\ pc' = "body" /\ snap[INDEX].set /\ snap[INDEX].resumed)
            => pos' = EntryLabel(snap[INDEX].label, snap[INDEX].labelFlag)]_vars

\* a task suspended by another task while it held a recorded anchor has been
\* resumed and dispatched, and runs at that anchor
SuspendResumeWitness ==
    /\ pc = "body"
    /\ pos # StartLabel
    /\ pos = cor[INDEX].label
    /\ left[INDEX] = "roundtrip"

\* ------------------------------------------------------- C10
\* C10: a coroutine that left by cor_suspend(NULL) is entered, on its next
\* dispatch, at the statement after that call.
SelfSuspendResume ==
    [][(pc = "call" /\ pc' = "body" /\ left[INDEX] = "suspend")
        => pos' = want[INDEX]]_vars

\* ------------------------------------------------------- C11
\* the slots of the largest table, idle slot included
AllSlots == {CorIdleHandle} \cup TaskSlots

\* C11: cor_resume(&h) on a slot that is neither NONE nor TERMINATED leaves
\* slot h READY with timeout 0, whoever the caller is.
ResumeActsOnTarget ==
    [][\A h \in AllSlots :
        (h \in DOMAIN cor /\ cor[h].state \notin {"NONE", "TERMINATED"} /\ cor_resumeOf(h))
            => (cor'[h].state = "READY" /\ cor'[h].timeout = 0)]_vars

\* ------------------------------------------------------- C12
\* C12: every slot with timeout > 0 is WAITING.
TimeoutImpliesWaiting ==
    \A i \in DOMAIN cor : cor[i].timeout > 0 => cor[i].state = "WAITING"

\* ------------------------------------------------------- C13
\* slot i of table c sleeps: WAITING with a stored timeout > 0
Sleeping(c, i) == i \in DOMAIN c /\ c[i].state = "WAITING" /\ c[i].timeout > 0

\* C13: a slot that starts sleeping is stamped with the tick read at that
\* moment; while it sleeps its stamp and timeout stay as they are; and the
\* timeout manager ends its sleep only at a tick n with
\* (n - stamp) mod 2^32 >= timeout.
SleepLowerBound ==
    [][\A i \in TaskSlots :
        /\ (~Sleeping(cor, i) /\ Sleeping(cor', i)) => cor'[i].lastTick = now
        /\ (Sleeping(cor, i) /\ Sleeping(cor', i))
              => (cor'[i].lastTick = cor[i].lastTick /\ cor'[i].timeout = cor[i].timeout)
        /\ (Sleeping(cor, i) /\ pc = "select" /\ ~Sleeping(cor', i))
              => U32Geq(U32Sub(now, cor[i].lastTick), U32Of(cor[i].timeout))]_vars

\* a timeout pass run after the tick advanced has examined a sleeper whose
\* timeout had not elapsed, and left it asleep
SleepLowerBoundWitness ==
    \E e \in pass :
        /\ ~e.woke
        /\ e.at # e.since
        /\ Sleeping(cor, e.slot)

\* ------------------------------------------------------- C14
\* C14: a timeout pass (a selection that does not take the fast path) wakes
\* every sleeper whose timeout has elapsed in
\* 32-bit unsigned arithmetic, (now - since) mod 2^32 >= timeout, also when
\* the tick has wrapped and now is numerically below since.
TickWraparound ==
    [][(pc = "select" /\ pc' # "select" /\ ~FastPath(cor, INDEX, now, tick))
        => \A i \in TaskSlots :
              (Sleeping(cor, i)
                  /\ U32Geq(U32Sub(now, cor[i].lastTick), U32Of(cor[i].timeout)))
                  => (cor'[i].state \in {"READY", "RUNNING"} /\ cor'[i].timeout = 0)]_vars

\* a pass has woken a sleeper at a tick numerically below the tick it began
\* to sleep at
TickWraparoundWitness ==
    \E e \in pass : e.woke /\ ~U32Geq(e.at, e.since)

\* ------------------------------------------------------- C15
\* C15: cor_sleep(ms) leaves the caller WAITING with stored timeout ms when
\* ms < 100 and ms - 1 when ms >= 100.
SleepAdjustment ==
    [][\A ms \in SleepArgs :
        cor_sleepOf(ms)
            => /\ cor'[INDEX].state = "WAITING"
               /\ cor'[INDEX].timeout = (IF ms >= 100 THEN ms - 1 ELSE ms)]_vars

\* one task sleeps on cor_sleep(100), another on a cor_sleep below 100
SleepAdjustmentWitness ==
    \E i \in UserSlots : \E j \in UserSlots :
        /\ cor[i].state = "WAITING" /\ cor[i].timeout = 99
        /\ cor[j].state = "WAITING" /\ cor[j].timeout \in {1, 2}

\* ------------------------------------------------------- C16
\* the user tasks the table holds
Created == Cardinality({i \in DOMAIN cor : i # CorIdleHandle /\ cor[i].state # "NONE"})

\* C16: after CorInit(c) has succeeded, a CorCreate with valid arguments
\* succeeds while fewer than c tasks exist and fails once c exist.
CapacityBound ==
    [][\A k \in HandleVars :
        (cap > 0 /\ hv[k] = NoHandle /\ AppCreateOf(k, "task"))
            => (ret'.val = "true" <=> Created < cap)]_vars

\* ------------------------------------------------------- C17
\* C17: on a scheduler that is not initialised, CorInit(c) succeeds exactly
\* for 1 <= c <= 31.
InitRange ==
    [][\A c \in CapArgs :
        (cap = 0 /\ AppInitOf(c))
            => (ret'.val = "true" <=> (1 <= c /\ c <= 31))]_vars

\* ------------------------------------------------------- C18
\* C18: CorInit on an initialised scheduler returns false and leaves the
\* table, the capacity and the current index as they are.
DoubleInitRejected ==
    [][\A c \in CapArgs :
        (cap > 0 /\ AppInitOf(c))
            => (ret'.val = "false" /\ UNCHANGED <<cor, cap, INDEX>>)]_vars

\* ------------------------------------------------------- C19
\* every user slot of the table is occupied
TableFull == \A i \in 1 .. (cap - 1) : cor[i].state # "NONE"

\* C19: a CorCreate on a scheduler that is not initialised, on a full table,
\* or with a null callback returns false and changes neither the table nor
\* the caller's handle.
CreateFailureNoTrace ==
    [][\A k \in HandleVars : \A f \in FuncArgs :
        (AppCreateOf(k, f) /\ (cap = 0 \/ TableFull \/ f = "NULL"))
            => (ret'.val = "false" /\ UNCHANGED <<cor, hv>>)]_vars

\* a CorCreate with a fresh handle variable and a callback has failed after
\* CorDestroy ended an init cycle in which a task had been created
CreateFailureWitness ==
    /\ ret = Called("CorCreate", NoHandle, "task", "false")
    /\ cap = 0
    /\ INDEX = -1
    /\ \E k \in HandleVars : hv[k] # NoHandle

\* ------------------------------------------------------- C20
\* the step is a CorInit that built a table or a CorDestroy: it ends the
\* init cycle
EndsCycle ==
    /\ pc = "main"
    /\ \/ ret'.call = "CorInit" /\ ret'.val = "true"
       \/ ret'.call = "CorDestroy"

\* C20: within an init cycle a CorCreate that succeeds returns the number of
\* tasks created so far plus one, and no step (CorDelete included) takes a
\* slot back to NONE or changes its callback, so no handle is returned twice
\* and a handle names the same task until the cycle ends.
StableHandles ==
    [][~EndsCycle =>
        /\ \A k \in HandleVars :
              (pc = "main" /\ ret'.call = "CorCreate" /\ ret'.val = "true" /\ hv'[k] # hv[k])
                  => hv'[k] = Created + 1
        /\ \A i \in DOMAIN cor :
              cor[i].state # "NONE"
                  => /\ i \in DOMAIN cor'
                     /\ cor'[i].state # "NONE"
                     /\ cor'[i].func = cor[i].func]_vars

\* two creates have returned 1 and 2, and a CorDelete on one of the handles
\* has left both tasks in the table
StableHandlesWitness ==
    /\ ret.call = "CorDelete"
    /\ ret.arg \in {1, 2}
    /\ hv = <<1, 2>>
    /\ cap = 3
    /\ \A i \in {1, 2} : cor[i].func = "task" /\ cor[i].state # "NONE"

\* ------------------------------------------------------- C21
\* C21: while a table exists, slot 0 holds the idle callback, its state is
\* not NONE, and no handle variable of the application holds 0.
IdleSlotPersists ==
    cap > 0 =>
        /\ 0 \in DOMAIN cor
        /\ cor[0].func = "CorIdleFunc"
        /\ cor[0].state # "NONE"
        /\ \A k \in HandleVars : hv[k] # 0

\* main has called CorDelete on the idle handle, with a task in the table,
\* and the call was refused
IdleSlotWitness ==
    /\ ret = Called("CorDelete", CorIdleHandle, "", "false")
    /\ cap > 0
    /\ \E i \in UserSlots : cor[i].state # "NONE"

\* ------------------------------------------------------- C22
\* C22: CorDestroy leaves no table, capacity 0 and index -1; a CorDestroy
\* that follows a CorDestroy changes none of them; and a CorInit with a
\* valid capacity that follows a CorDestroy succeeds and builds its table.
DeinitIdempotent ==
    [][/\ AppDestroy => (cap' = 0 /\ DOMAIN cor' = {} /\ INDEX' = -1)
       /\ (AppDestroy /\ ret.call = "CorDestroy") => UNCHANGED <<cap, INDEX, cor>>
       /\ \A c \in {2, 3} :
            (ret.call = "CorDestroy" /\ AppInitOf(c))
                => (ret'.val = "true" /\ cap' = c /\ cor' = CorInitTable(c))]_vars

\* CorDestroy has been called on a scheduler without a table, after an init
\* cycle in which a task had been created
DeinitIdempotentWitness ==
    /\ ret = Called("CorDestroy", 0, "", "void")
    /\ \E k \in HandleVars : hv[k] # NoHandle

\* ------------------------------------------------------- C23
\* C23: a selection dispatches slot 0 only when no user slot is READY.
IdleNotInRotation ==
    [][(pc = "select" /\ pc' = "call" /\ INDEX' = CorIdleHandle)
        => \A i \in UserSlots : cor'[i].state # "READY"]_vars

\* ------------------------------------------------------- C24
\* C24: every dispatch comes right after a timeout pass: apart from the
\* dispatched slot, the table at the dispatch is the table the pass leaves.
TimeoutPassEveryDispatch ==
    [][(pc = "select" /\ pc' = "call")
        => \A i \in DOMAIN cor :
              i # INDEX' => cor'[i] = corTimeoutDisp(cor, now)[i]]_vars

\* ------------------------------------------------------- C25
\* slot i of table c would be READY after a timeout pass at tick tk: it is
\* READY, or WAITING with no timeout left to wait
ReadyAtSelection(c, i, tk) ==
    \/ c[i].state = "READY"
    \/ /\ c[i].state = "WAITING"
       /\ \/ c[i].timeout = 0
          \/ U32Geq(U32Sub(tk, c[i].lastTick), U32Of(c[i].timeout))

\* C25: the slot whose callback CorStart invokes was READY at the selection
\* (READY before it, or made READY by its timeout pass); a slot that is
\* NONE, SUSPEND, BLOCKED, or WAITING with time left is never invoked.
OnlyReadyDispatched ==
    [][(pc # "call" /\ pc' = "call") => ReadyAtSelection(cor, INDEX', now)]_vars

\* task 1 runs for the second time while task 2, created but never run, is
\* suspended: with the tick unchanged the scan went past slot 2 and slot 0
OnlyReadyWitness ==
    /\ pc = "call"
    /\ nticks = 0
    /\ cap = 3
    /\ INDEX = 1
    /\ cor[1].labelFlag
    /\ cor[2].state = "SUSPEND"
    /\ cor[2].label = NullLabel
    /\ cor[0].state = "SUSPEND"

\* ------------------------------------------------------- C26
\* C26: whenever CorStart invokes a callback, the slot's label flag is
\* false (switch_state NORMAL).
DispatchFlagNormal == pc = "call" => ~cor[INDEX].labelFlag

\* ------------------------------------------------------- C27
\* C27: a body that returns by falling off its end while its slot is
\* RUNNING leaves the slot READY, and no slot is ever TERMINATED.
ImplicitRearm ==
    [][/\ (BodyReturn /\ cor[INDEX].state = "RUNNING") => cor'[INDEX].state = "READY"
       /\ \A i \in DOMAIN cor' : cor'[i].state # "TERMINATED"]_vars

\* the only task has been run twice, has recorded no anchor but the start
\* label, and its last run ended by falling off the end: it is READY again
ImplicitRearmWitness ==
    /\ pc = "select"
    /\ cap = 2
    /\ ndisp >= 3
    /\ INDEX = 1
    /\ cor[1].state = "READY"
    /\ cor[1].label = StartLabel
    /\ cor[1].labelFlag
    /\ left[1] = ""
    /\ mutex = {}

\* ------------------------------------------------------- C28
\* the slot states on which suspend and resume are documented to do nothing
NoSuspendStates == {"NONE", "CREATED", "TERMINATED"}

NoResumeStates == {"NONE", "TERMINATED"}

\* C28: suspend(h) on a slot that is NONE, CREATED or TERMINATED, and
\* resume(h) on a slot that is NONE or TERMINATED, leave the whole table
\* (every slot's state, timeout, last tick, anchor), the current index and
\* the capacity as they were, whether main or a running body makes the call.
WrongStateNoOp ==
    [][/\ \A k \in HandleVars :
            /\ (hv[k] \in DOMAIN cor /\ cor[hv[k]].state \in NoSuspendStates
                    /\ AppSuspendOf(k))
                => UNCHANGED <<cor, INDEX, cap>>
            /\ (hv[k] \in DOMAIN cor /\ cor[hv[k]].state \in NoResumeStates
                    /\ AppResumeOf(k))
                => UNCHANGED <<cor, INDEX, cap>>
       /\ \A h \in AllSlots :
            /\ (h \in DOMAIN cor /\ cor[h].state \in NoSuspendStates
                    /\ cor_suspendOf(h))
                => UNCHANGED <<cor, INDEX, cap>>
            /\ (h \in DOMAIN cor /\ cor[h].state \in NoResumeStates
                    /\ cor_resumeOf(h))
                => UNCHANGED <<cor, INDEX, cap>>]_vars

\* main has just suspended through a handle that a second CorInit left
\* naming an empty slot
WrongStateWitness ==
    /\ ret = Called("Suspend", 2, "", "void")
    /\ hv[2] = 2
    /\ cap = 3
    /\ cor[2].state = "NONE"
    /\ cor[0].state = "READY"

\* ------------------------------------------------------- C29
\* C29: when the running coroutine calls suspend(h) or resume(h) on a slot h
\* other than its own, every slot but h keeps its record: the caller's
\* state, timeout, last-tick stamp, anchor and label flag, and third slots.
SuspendResumeFrame ==
    [][\A h \in AllSlots :
         (h \in DOMAIN cor /\ h # INDEX /\ (cor_suspendOf(h) \/ cor_resumeOf(h)))
            => \A i \in DOMAIN cor : i # h => cor'[i] = cor[i]]_vars

====
